---- MODULE Spec2Model ----
(***************************************************************************)
(* Model of src/src/lib.rs (bevy_webcam_facial).                           *)
(*                                                                         *)
(* Two execution contexts share the WebcamFacialController:                *)
(*   - the Driver, the Bevy system webcam_facial_task_runner, run once per *)
(*     host tick;                                                          *)
(*   - the Workers, the async tasks spawned on the AsyncComputeTaskPool    *)
(*     (lines 116-196), which run on other threads.                        *)
(* The shared state is the atomic flag `status` (running), the bounded(1)  *)
(* crossbeam channel and, read-only for the Driver, `control` (enabled).   *)
(* A Driver tick is therefore split where a Worker step in between can    *)
(* make a difference (after the spawn, at each poll, at each try_recv),    *)
(* and a Worker is split at its loads, sends and library calls.            *)
(* `control` is a plain field of a Bevy resource borrowed immutably by the *)
(* system, so external toggles happen only between two Driver ticks.       *)
(* The host may also drop the Controller (and the Receiver in it), after   *)
(* which the Driver runs no more while the pool tasks go on.               *)
(*                                                                         *)
(* Spec / FairSpec : the plugin, Driver and Workers interleaved.           *)
(* LiveSpec        : the same with a camera that never stops delivering.   *)
(* E2ESpec         : the same with a constant frame and detector result.   *)
(* SelSpec         : the face selection of lines 159-183 on its own.       *)
(* ConvSpec        : yuyv_to_rgb (lines 217-242) on its own.               *)
(***************************************************************************)
EXTENDS Integers, Sequences, FiniteSets, TLC

\* ---------------------------------------------------------------- bounds
\* Number of Workers that may ever be spawned in one behaviour.
MaxWorkers == 2
\* Number of frames the camera delivers in a behaviour whose histories are
\* kept (keepHist); the camera itself has no limit.
MaxFrames == 2

\* ------------------------------------------------------ program constants
\* bounded(1): capacity of the channel (line 74).
ChanCap == 1
\* Configured frame size (config_webcam_width / config_webcam_height).
ConfigWidth == 320
ConfigHeight == 240

Workers == 1..MaxWorkers

\* ------------------------------------------------------------- data model
\* WebcamFacialData::default() (line 160, #[derive(Default)] line 60).
DefaultData ==
  [center_x |-> 0, center_y |-> 0, x |-> 0, y |-> 0,
   width |-> 0, height |-> 0, score |-> 0]

Face(fx, fy, fw, fh, fs) ==
  [x |-> fx, y |-> fy, width |-> fw, height |-> fh, score |-> fs]

\* The scene in front of the camera: what detector.detect returns (line 157)
\* for the successive frames: two faces with the best one second, no face,
\* one face; then again.  The control flow never looks at the data, the
\* values only have to differ from one frame to the next.
Scene ==
  << << Face(10, 20, 40, 60, 3), Face(100, 50, 40, 40, 9) >>,
     << >>,
     << Face(10, 20, 40, 60, 5) >> >>

\* The scene of the end-to-end check: the detector returns the same single
\* face for every frame.
FixedScene == << << Face(10, 20, 40, 60, 5) >> >>

\* Lines 160-183: the record sent for a list of detected faces.  The match
\* is on max_by_key (Some iff the list is non-empty); the fields are read
\* from faces[0].
FacialDataUncentred(faces, width, height) ==
  IF Len(faces) = 0
  THEN DefaultData
  ELSE LET f == faces[1]
       IN [center_x |-> (f.width \div 2) + f.x,
           center_y |-> (f.height \div 2) + f.y,
           x |-> f.x, y |-> f.y, width |-> f.width, height |-> f.height,
           score |-> f.score]
FacialData(faces, width, height) ==
  IF Len(faces) = 0
    THEN DefaultData
    ELSE LET f == faces[1] IN
         [center_x |-> ((f.width \div 2) + f.x) - (width \div 2),
          center_y |-> ((f.height \div 2) + f.y) - (height \div 2),
          x |-> f.x, y |-> f.y, width |-> f.width, height |-> f.height,
          score |-> f.score]

\* ------------------------------------------------------------------ state
VARIABLES
  control,    \* WebcamFacialController.control  (enabled)
  status,     \* WebcamFacialController.status   (running, AtomicBool)
  chan,       \* contents of the bounded(1) channel
  proc,       \* "up", "exited" (process::exit(1)), "crashed" (Driver panic),
              \* "shutdown" (the Controller and its Receiver are dropped)
  dpc,        \* position of the Driver inside a tick
  dTodo,      \* task entities the query loop has still to poll
  tasks,      \* entities carrying a WebcamFacialTask component
  cmdSpawn,   \* deferred Commands: components to insert at the end of tick
  cmdRemove,  \* deferred Commands: components to remove at the end of tick
  wpc,        \* position of each Worker
  cam,        \* each Worker's Camera object: "none", "open", "closed"
              \* (dropped) or "openFailed"
  wres,       \* facial_data held by each Worker
  frames,     \* frames delivered by the camera so far
  sent,       \* history: values successfully sent into the channel
  events,     \* history: WebcamFacialDataEvent written by the Driver
  tickRun0,   \* history: status at the start of the current tick
  tickSp0,    \* history: Workers spawned before the current tick
  owed,       \* history: enabled went false->true with no Worker alive
  tickOwed,   \* history: `owed` as found by the current tick
  sinceClear, \* history: sends completed by each Worker in its loop since
              \* status=false
  config,     \* config_width, config_height of the Controller
  scene,      \* environment: the faces the detector finds, frame by frame
  keepHist,   \* whether the histories `sent` and `events` and the count of
              \* frames are kept; if not, the camera delivers without end
  selIn,      \* face selection alone: the detected faces
  selFrame,   \* face selection alone: frame width and height
  selOut,     \* face selection alone: the record built
  selDone,    \* face selection alone: the record has been built
  yuvIn,      \* yuyv_to_rgb alone: yuyv_frame
  yuvDim,     \* yuyv_to_rgb alone: width and height
  yuvOut,     \* yuyv_to_rgb alone: the returned buffer
  yuvTrace,   \* yuyv_to_rgb alone: indices read and written, pair by pair
  yuvDone     \* yuyv_to_rgb alone: "no", "returned" or "panicked"

vars == << control, status, chan, proc, dpc, dTodo, tasks, cmdSpawn,
           cmdRemove, wpc, cam, wres, frames, sent, events, tickRun0,
           tickSp0, owed, tickOwed, sinceClear, config, scene, keepHist,
           selIn,
           selFrame, selOut, selDone, yuvIn, yuvDim, yuvOut, yuvTrace,
           yuvDone >>

\* The variables of the function-level specifications.
pureVars == << selIn, selFrame, selOut, selDone, yuvIn, yuvDim, yuvOut,
               yuvTrace, yuvDone >>
\* What no step of the plugin changes.
fixedVars == << config, scene, keepHist, pureVars >>

\* detector.detect for the n-th frame delivered by the camera.
FrameFacesNone(n) == << >>
FrameFaces(n) == scene[((n - 1) % Len(scene)) + 1]

\* The pool threads run as long as the process does.
PoolUp == proc \in {"up", "shutdown"}

driverVars == << dpc, dTodo, tasks, cmdSpawn, cmdRemove >>
workerVars == << wpc, cam, wres, frames >>
histVars   == << sent, events, tickRun0, tickSp0, owed, tickOwed, sinceClear >>

\* A Worker is alive from its spawn until it leaves its loop (or dies); out
\* of its loop it is "exiting" until its task is complete ("done").
AlivePcs == {"open", "startError", "detector", "loop", "capture", "send"}
Alive(w) == wpc[w] \in AlivePcs
AliveSet == {w \in Workers : Alive(w)}
Spawned == {w \in Workers : wpc[w] # "unborn"}
NSpawned == Cardinality(Spawned)

\* The function-level variables at rest.
SelIdle ==
  /\ selIn = << >> /\ selFrame = << 0, 0 >>
  /\ selOut = DefaultData /\ selDone = FALSE

YuvIdle ==
  /\ yuvIn = << >> /\ yuvDim = << 0, 0 >>
  /\ yuvOut = << >> /\ yuvTrace = << >> /\ yuvDone = "no"

PureIdle == SelIdle /\ YuvIdle

\* Plugin::build (lines 72-93): empty channel, status=false, the
\* configuration copied from the plugin; no task yet.
Built ==
  /\ status = FALSE
  /\ chan = << >>
  /\ proc = "up"
  /\ dpc = "idle"
  /\ dTodo = {}
  /\ tasks = {}
  /\ cmdSpawn = {}
  /\ cmdRemove = {}
  /\ wpc = [w \in Workers |-> "unborn"]
  /\ cam = [w \in Workers |-> "none"]
  /\ wres = [w \in Workers |-> DefaultData]
  /\ frames = 0
  /\ sent = << >>
  /\ events = << >>
  /\ tickRun0 = FALSE
  /\ tickSp0 = 0
  /\ owed = FALSE
  /\ tickOwed = FALSE
  /\ sinceClear = [w \in Workers |-> 0]
  /\ config = [width |-> ConfigWidth, height |-> ConfigHeight]

\* Plugin::build (lines 72-93); control is the autostart option.
Init ==
  /\ control \in BOOLEAN
  /\ Built
  /\ scene = Scene
  /\ keepHist = TRUE
  /\ PureIdle

\* ------------------------------------------------------- external toggles
\* The host sets control := true.  (Bounded: every toggle to true may cost
\* one spawn.)
ToggleOn ==
  /\ proc = "up" /\ dpc = "idle"
  /\ ~control
  /\ NSpawned < MaxWorkers
  /\ control' = TRUE
  /\ owed' = (AliveSet = {})
  /\ UNCHANGED << status, chan, proc, driverVars, workerVars, sent, events,
                  tickRun0, tickSp0, tickOwed, sinceClear >>
  /\ UNCHANGED fixedVars

\* The host sets control := false.
ToggleOff ==
  /\ proc = "up" /\ dpc = "idle"
  /\ control
  /\ control' = FALSE
  /\ owed' = FALSE
  /\ UNCHANGED << status, chan, proc, driverVars, workerVars, sent, events,
                  tickRun0, tickSp0, tickOwed, sinceClear >>
  /\ UNCHANGED fixedVars

\* The host drops the Controller resource, and with it the Receiver (the
\* World is dropped when the application leaves its loop); the system runs
\* no more, the tasks already on the pool threads go on.
HostShutdown ==
  /\ proc = "up" /\ dpc = "idle"
  /\ proc' = "shutdown"
  /\ UNCHANGED << control, status, chan, driverVars, workerVars, histVars >>
  /\ UNCHANGED fixedVars

\* ----------------------------------------------------------------- Driver
\* Line 103: the spawn condition.
ShouldSpawnIgnoringStatus(c, s) == c
ShouldSpawn(c, s) == c /\ ~s

\* Line 202: the stop condition.
ShouldStopNever(c, s) == FALSE
ShouldStop(c, s) == ~c /\ s

\* Line 206: poll_once yields Some only for a completed task.
PollReadyEager(pc) == TRUE
PollReady(pc) == pc = "done"

\* Line 206: poll_once never waits for the task, whatever its position.
PollWaitsForCompletion(pc) == pc \notin {"done", "panicked"}
PollWaits(pc) == FALSE

\* Line 213: one event per received value.
RepublishTwice(ev, d) == Append(Append(ev, d), d)
Republish(ev, d) == Append(ev, d)

\* Lines 202-204: the running flag after the stop check.
StatusAfterStop(c, s) == IF ShouldStop(c, s) THEN FALSE ELSE s

\* Lines 103-197: start of a tick; when enabled and not running, spawn the
\* task (it may start at once on a pool thread) and queue the insertion of
\* its handle.  Otherwise the tick goes on to the stop check of lines
\* 202-204 and to the query loop over the task entities that exist at this
\* tick (between lines 103 and 203 nothing is shared with a Worker).
DriverCheck ==
  /\ proc = "up" /\ dpc = "idle"
  /\ tickRun0' = status
  /\ tickSp0' = NSpawned
  /\ tickOwed' = owed
  /\ owed' = FALSE
  /\ IF ShouldSpawn(control, status)
       THEN LET w == NSpawned + 1 IN
            /\ w \in Workers
            /\ wpc' = [wpc EXCEPT ![w] = "open"]
            /\ cmdSpawn' = cmdSpawn \cup {w}
            /\ dpc' = "store"
            /\ UNCHANGED << status, sinceClear, dTodo >>
       ELSE /\ status' = StatusAfterStop(control, status)
            /\ sinceClear' = IF status' # status THEN [w \in Workers |-> 0]
                                                 ELSE sinceClear
            /\ dTodo' = tasks
            /\ dpc' = IF tasks = {} THEN "drain" ELSE "poll"
            /\ UNCHANGED << wpc, cmdSpawn >>
  /\ UNCHANGED << control, chan, proc, tasks, cmdRemove, cam, wres, frames,
                  sent, events >>
  /\ UNCHANGED fixedVars

\* Line 199: status.store(true); then the stop check of lines 202-204 and the
\* start of the query loop.
DriverStore ==
  /\ proc = "up" /\ dpc = "store"
  /\ status' = StatusAfterStop(control, TRUE)
  /\ sinceClear' = [w \in Workers |-> 0]
  /\ dTodo' = tasks
  /\ dpc' = IF tasks = {} THEN "drain" ELSE "poll"
  /\ UNCHANGED << control, chan, proc, tasks, cmdSpawn, cmdRemove,
                  workerVars, sent, events, tickRun0, tickSp0, owed,
                  tickOwed >>
  /\ UNCHANGED fixedVars

\* Lines 205-210: one iteration of the query loop, over the entities in the
\* order of their creation.  A completed task has its
\* component removed (deferred); polling a task whose future panicked
\* panics in the Driver, which takes the application down.
DriverPoll(w) ==
  /\ proc = "up" /\ dpc = "poll"
  /\ w \in dTodo
  /\ \A v \in dTodo : w <= v
  /\ ~PollWaits(wpc[w])
  /\ dTodo' = dTodo \ {w}
  /\ IF wpc[w] = "panicked"
       THEN /\ proc' = "crashed"
            /\ UNCHANGED << dpc, cmdRemove >>
       ELSE /\ cmdRemove' = IF PollReady(wpc[w]) THEN cmdRemove \cup {w}
                                                ELSE cmdRemove
            /\ dpc' = IF dTodo' = {} THEN "drain" ELSE "poll"
            /\ proc' = proc
  /\ UNCHANGED << control, status, chan, tasks, cmdSpawn, workerVars,
                  histVars >>
  /\ UNCHANGED fixedVars

\* Lines 211-214: the drain loop stands after both conditionals of the
\* system, it runs at every tick whatever control and status are.
DrainCondRunning(c, s) == s
DrainCond(c, s) == TRUE

\* Lines 211-214: try_recv returned Ok(data): republish it.
DriverRecv ==
  /\ proc = "up" /\ dpc = "drain"
  /\ DrainCond(control, status) /\ chan # << >>
  /\ events' = IF keepHist THEN Republish(events, Head(chan)) ELSE events
  /\ chan' = Tail(chan)
  /\ UNCHANGED << control, status, proc, driverVars, workerVars, sent,
                  tickRun0, tickSp0, owed, tickOwed, sinceClear >>
  /\ UNCHANGED fixedVars

\* Line 211: try_recv returned Err(Empty): the system returns and its
\* deferred Commands are applied.
DriverEndTick ==
  /\ proc = "up" /\ dpc = "drain"
  /\ ~DrainCond(control, status) \/ chan = << >>
  /\ tasks' = (tasks \cup cmdSpawn) \ cmdRemove
  /\ cmdSpawn' = {}
  /\ cmdRemove' = {}
  /\ dpc' = "idle"
  /\ tickRun0' = FALSE
  /\ tickSp0' = 0
  /\ tickOwed' = FALSE
  /\ UNCHANGED << control, status, chan, proc, dTodo, workerVars, sent,
                  events, owed, sinceClear >>
  /\ UNCHANGED fixedVars

DriverStep ==
  \/ DriverCheck
  \/ DriverStore
  \/ \E w \in Workers : DriverPoll(w)
  \/ DriverRecv
  \/ DriverEndTick

\* ----------------------------------------------------------------- Worker
\* Line 126: where the task goes after a failed camera.start.
AfterStartFailureAbort == "panicked"
AfterStartFailure == "detector"

\* Line 142: the loop condition on the loaded flag.
LoopCondAlways(s) == TRUE
LoopCond(s) == s

\* Lines 144 and 194-195: the running flag as the task leaves it when it
\* ends, by returning or by the panic of a failed capture.
StatusAtExitCleared(s) == FALSE
StatusAtExit(s) == s

\* Lines 189-191: where the task goes after a failed send.
AfterSendFailureAbort == "panicked"
AfterSendFailure == "loop"

\* Line 133: the status the process exits with.
ExitCode == 1
ExitStatus(p) == IF p = "exited" THEN ExitCode ELSE 0

\* Lines 131-134: the process after a failure to create the detector.
AfterDetectorFailureContinue == "up"
AfterDetectorFailure == "exited"

\* Line 185: send completes only when the channel has room.
CanSendAlways(ch) == TRUE
CanSend(ch) == Len(ch) < ChanCap

\* Lines 118-126: Camera::new(..) and camera.start(..) both succeeded.
WorkerCameraOk(w) ==
  /\ PoolUp /\ wpc[w] = "open"
  /\ wpc' = [wpc EXCEPT ![w] = "detector"]
  /\ cam' = [cam EXCEPT ![w] = "open"]
  /\ UNCHANGED << control, status, chan, proc, driverVars, wres, frames,
                  histVars >>
  /\ UNCHANGED fixedVars

\* Line 118: Camera::new(..).unwrap() on Err: the task panics.
WorkerOpenFail(w) ==
  /\ PoolUp /\ wpc[w] = "open"
  /\ wpc' = [wpc EXCEPT ![w] = "panicked"]
  /\ cam' = [cam EXCEPT ![w] = "openFailed"]
  /\ UNCHANGED << control, status, chan, proc, driverVars, wres, frames,
                  histVars >>
  /\ UNCHANGED fixedVars

\* Lines 118-126: the camera opened but camera.start(..) returned Err: the
\* closure of unwrap_or_else is entered.
WorkerStartFail(w) ==
  /\ PoolUp /\ wpc[w] = "open"
  /\ wpc' = [wpc EXCEPT ![w] = "startError"]
  /\ cam' = [cam EXCEPT ![w] = "open"]
  /\ UNCHANGED << control, status, chan, proc, driverVars, wres, frames,
                  histVars >>
  /\ UNCHANGED fixedVars

\* Line 126: the closure logs the error; the result of start is kept
\* nowhere.
WorkerStartErrorLogged(w) ==
  /\ PoolUp /\ wpc[w] = "startError"
  /\ wpc' = [wpc EXCEPT ![w] = AfterStartFailure]
  /\ UNCHANGED << control, status, chan, proc, driverVars, cam, wres, frames,
                  histVars >>
  /\ UNCHANGED fixedVars

\* Lines 128-140: the detector is created and configured.
WorkerDetectorOk(w) ==
  /\ PoolUp /\ wpc[w] = "detector"
  /\ wpc' = [wpc EXCEPT ![w] = "loop"]
  /\ UNCHANGED << control, status, chan, proc, driverVars, cam, wres, frames,
                  histVars >>
  /\ UNCHANGED fixedVars

\* Lines 131-134: create_detector failed: std::process::exit(1).
WorkerDetectorFail(w) ==
  /\ PoolUp /\ wpc[w] = "detector"
  /\ wpc' = [wpc EXCEPT ![w] = "loadFailed"]
  /\ proc' = IF proc = "up" THEN AfterDetectorFailure ELSE "exited"
  /\ UNCHANGED << control, status, chan, driverVars, cam, wres, frames,
                  histVars >>
  /\ UNCHANGED fixedVars

\* Line 142: while task_running.load(..): the flag is loaded; the Worker
\* enters an iteration or is out of its loop, its task not yet complete.
\* (A Worker out of its loop sends no more: its count of sends is dropped.)
WorkerLoopCheck(w) ==
  /\ PoolUp /\ wpc[w] = "loop"
  /\ wpc' = [wpc EXCEPT ![w] = IF LoopCond(status) THEN "capture"
                                                  ELSE "exiting"]
  /\ sinceClear' = IF LoopCond(status) THEN sinceClear
                                       ELSE [sinceClear EXCEPT ![w] = 0]
  /\ UNCHANGED << control, status, chan, proc, driverVars, cam, wres, frames,
                  sent, events, tickRun0, tickSp0, owed, tickOwed >>
  /\ UNCHANGED fixedVars

\* Lines 194-196: after the loop the task logs, returns true and drops its
\* camera: it is complete, which poll_once sees from then on.
WorkerExit(w) ==
  /\ PoolUp /\ wpc[w] = "exiting"
  /\ wpc' = [wpc EXCEPT ![w] = "done"]
  /\ cam' = [cam EXCEPT ![w] = "closed"]
  /\ status' = StatusAtExit(status)
  /\ UNCHANGED << control, chan, proc, driverVars, wres, frames, histVars >>
  /\ UNCHANGED fixedVars

\* The number of the frame delivered after frame n: counted while the
\* histories are kept, else only the position in the scene, which repeats.
NextFrame(n) == IF keepHist THEN n + 1 ELSE (n % Len(scene)) + 1

\* Lines 144-183: a frame is captured (the camera is delivering frames),
\* converted, searched for faces and the record to send is built.
WorkerCaptureOk(w) ==
  /\ PoolUp /\ wpc[w] = "capture"
  /\ keepHist => frames < MaxFrames
  /\ frames' = NextFrame(frames)
  /\ wres' = [wres EXCEPT ![w] =
                FacialData(FrameFaces(frames'), config.width, config.height)]
  /\ wpc' = [wpc EXCEPT ![w] = "send"]
  /\ UNCHANGED << control, status, chan, proc, driverVars, cam, histVars >>
  /\ UNCHANGED fixedVars

\* Line 144: camera.capture().expect(..) on Err: the task panics (and drops
\* its camera).
WorkerCaptureFail(w) ==
  /\ PoolUp /\ wpc[w] = "capture"
  /\ wpc' = [wpc EXCEPT ![w] = "panicked"]
  /\ cam' = [cam EXCEPT ![w] = "closed"]
  /\ status' = StatusAtExit(status)
  /\ UNCHANGED << control, chan, proc, driverVars, wres, frames, histVars >>
  /\ UNCHANGED fixedVars

\* Lines 185-188: sender.send(facial_data) returns Ok; it blocks while the
\* channel is full.  (The receiver lives in the Controller.)
WorkerSend(w) ==
  /\ proc = "up" /\ wpc[w] = "send"
  /\ CanSend(chan)
  /\ chan' = Append(chan, wres[w])
  /\ sent' = IF keepHist THEN Append(sent, wres[w]) ELSE sent
  /\ sinceClear' = [sinceClear EXCEPT ![w] = IF status THEN 0 ELSE @ + 1]
  /\ wres' = [wres EXCEPT ![w] = DefaultData]
  /\ wpc' = [wpc EXCEPT ![w] = "loop"]
  /\ UNCHANGED << control, status, proc, driverVars, cam, frames, events,
                  tickRun0, tickSp0, owed, tickOwed >>
  /\ UNCHANGED fixedVars

\* Lines 189-191: sender.send returns Err(SendError): the receiver is gone;
\* the error is logged and the value dropped.
WorkerSendFail(w) ==
  /\ proc = "shutdown" /\ wpc[w] = "send"
  /\ wres' = [wres EXCEPT ![w] = DefaultData]
  /\ wpc' = [wpc EXCEPT ![w] = AfterSendFailure]
  /\ UNCHANGED << control, status, chan, proc, driverVars, cam, frames,
                  histVars >>
  /\ UNCHANGED fixedVars

WorkerStep(w) ==
  \/ WorkerCameraOk(w)
  \/ WorkerOpenFail(w)
  \/ WorkerStartFail(w)
  \/ WorkerStartErrorLogged(w)
  \/ WorkerDetectorOk(w)
  \/ WorkerDetectorFail(w)
  \/ WorkerLoopCheck(w)
  \/ WorkerExit(w)
  \/ WorkerCaptureOk(w)
  \/ WorkerCaptureFail(w)
  \/ WorkerSend(w)
  \/ WorkerSendFail(w)

Next ==
  \/ ToggleOn
  \/ ToggleOff
  \/ HostShutdown
  \/ DriverStep
  \/ \E w \in Workers : WorkerStep(w)

Spec == Init /\ [][Next]_vars

TypeOK ==
  /\ control \in BOOLEAN /\ status \in BOOLEAN
  /\ Len(chan) <= ChanCap
  /\ proc \in {"up", "exited", "crashed", "shutdown"}
  /\ dpc \in {"idle", "store", "poll", "drain"}
  /\ dTodo \subseteq Workers /\ tasks \subseteq Workers
  /\ cmdSpawn \subseteq Workers /\ cmdRemove \subseteq Workers
  /\ \A w \in Workers : wpc[w] \in
       AlivePcs \cup {"unborn", "exiting", "done", "panicked", "loadFailed"}
  /\ frames \in 0..(IF keepHist THEN MaxFrames ELSE Len(scene))
  /\ keepHist \in BOOLEAN

\* The steps of a Worker other than the return of camera.capture.
WorkerRun(w) ==
  \/ WorkerCameraOk(w) \/ WorkerOpenFail(w)
  \/ WorkerStartFail(w) \/ WorkerStartErrorLogged(w)
  \/ WorkerDetectorOk(w) \/ WorkerDetectorFail(w)
  \/ WorkerLoopCheck(w) \/ WorkerExit(w)
  \/ WorkerSend(w) \/ WorkerSendFail(w)

\* End to end with a camera that always yields the same frame and a
\* detector that always finds the same single face.
E2EInit ==
  /\ control \in BOOLEAN
  /\ Built
  /\ scene = FixedScene
  /\ keepHist = TRUE
  /\ PureIdle

E2ESpec == E2EInit /\ [][Next]_vars

\* Scheduling: the host runs the Driver system every tick, the pool threads
\* run the Workers, and the calls into the camera and detector libraries at
\* start-up return.  (camera.capture is a blocking call: no assumption.)
Fairness ==
  /\ WF_vars(DriverStep)
  /\ \A w \in Workers : WF_vars(WorkerRun(w))

FairSpec == Spec /\ Fairness

\* The plugin in front of a camera that delivers frames without end: the
\* loop of lines 142-193 has no limit on its iterations.  The histories are
\* not kept, so that the Workers may capture and send for ever; the frame
\* is constant, the control flow never looks at it.
LiveInit ==
  /\ control \in BOOLEAN
  /\ Built
  /\ scene = FixedScene
  /\ keepHist = FALSE
  /\ PureIdle

\* A blocked sender.send (line 185) is woken each time the Driver takes the
\* value out of the channel (crossbeam notifies a waiting sender on every
\* receive) and then tries again, while a competing Worker has a whole
\* iteration (loop test, capture, conversion, detection) to go through
\* before its next send: a send that is possible again and again is
\* eventually made.  Weak fairness would not do: with two Workers alive
\* the slot is full again each time the other Worker has sent.
SendFairness == \A w \in Workers : SF_vars(WorkerSend(w))

\* Nothing is assumed of the other Worker steps: a Worker may stay for
\* ever in a library call, or go round its loop for ever.
LiveSpec ==
  LiveInit /\ [][Next]_vars /\ WF_vars(DriverStep) /\ SendFairness

IsPrefix(s, t) == Len(s) <= Len(t) /\ SubSeq(t, 1, Len(s)) = s

\* A Worker in the middle of an iteration of its loop.
MidIteration(w) == wpc[w] \in {"capture", "send"}

\* The state-machine part of the current tick (lines 103-204) is over.
PastStateMachine == dpc \in {"poll", "drain"}

\* A step of the Driver (it moves in its tick or publishes an event).
DriverMoved == driverVars' # driverVars \/ events' # events

\* ------------------------------------------------------------------ C1
\* C1: in every reachable state at most one Worker (spawned and not yet out
\* of its loop) is alive.
C1_AtMostOneWorkerAlive == Cardinality(AliveSet) <= 1

\* ------------------------------------------------------------------ C2
\* C2: the channel holds at most one undelivered result; a send attempted
\* while the slot is occupied cannot complete; a completing send finds the
\* slot empty and leaves its own value there, and the value in the slot
\* changes only by the Driver taking it; completed sends exceed drained
\* results by at most one.
C2_SingleSlot ==
  /\ [](Len(chan) <= 1 /\ Len(sent) <= Len(events) + 1)
  /\ [](\A w \in Workers :
          (wpc[w] = "send" /\ chan # << >>) => ~ENABLED WorkerSend(w))
  /\ [][\A w \in Workers :
          (proc = "up" /\ wpc[w] = "send" /\ wpc'[w] # "send")
             => (chan = << >> /\ chan' = << wres[w] >>)]_vars
  /\ [][(chan # << >> /\ chan' # chan)
          => (dpc = "drain" /\ chan' = Tail(chan))]_vars

\* A Worker is blocked in send on the occupied slot.
C2_Witness == chan # << >> /\ \E w \in Workers : wpc[w] = "send"

\* ------------------------------------------------------------------ C3
\* C3: the outward events followed by the undelivered content of the channel
\* are exactly the values sent, in order: the events are a prefix of the
\* sent values, nothing lost, duplicated or reordered.
C3_RepublishInOrder ==
  /\ sent = events \o chan
  /\ IsPrefix(events, sent)

\* Two different results have been republished.
C3_Witness == Len(events) >= 2 /\ events[1] # events[2]

\* ------------------------------------------------------------------ C4
\* C4: once a tick is past lines 103-204: enabled and not running at its
\* start, exactly one Worker was spawned and running is true; not enabled
\* and running, running is false and no Worker was spawned; enabled equal to
\* running, no Worker was spawned and running is as it was.  The stop signal
\* moves no Worker.
C4_TickStateMachine ==
  /\ [](PastStateMachine =>
          /\ (control /\ ~tickRun0) => (NSpawned = tickSp0 + 1 /\ status)
          /\ (~control /\ tickRun0) => (NSpawned = tickSp0 /\ ~status)
          /\ (control = tickRun0)
                => (NSpawned = tickSp0 /\ status = tickRun0))
  /\ [][(status /\ ~status') => wpc' = wpc]_vars

\* A tick that found enabled and not running has spawned its Worker.
C4_Witness ==
  PastStateMachine /\ control /\ ~tickRun0 /\ NSpawned = tickSp0 + 1

\* ------------------------------------------------------------------ C5
\* C5: a tick that follows a toggle of enabled from false to true made while
\* no Worker was alive spawns exactly one Worker.
C5_ToggleOnSpawnsOne ==
  (dpc # "idle" /\ tickOwed) => NSpawned = tickSp0 + 1

\* ------------------------------------------------------------------ C6
\* C6 (as stated): while enabled is false, running is false only when every
\* Worker has completed its iteration and has been reaped by the Driver.
C6_RunningUntilReaped ==
  (~control /\ ~status) =>
     \A w \in Spawned : ~Alive(w) /\ w \notin tasks /\ w \notin cmdSpawn

\* C6 (amended): the toggle to false leaves running as it is; running is
\* cleared only by the stop check of a Driver tick that finds enabled false,
\* and every such tick clears it, whatever the Workers are doing.
C6_ClearedAtNextTick ==
  /\ [](PastStateMachine /\ ~control => ~status)
  /\ [][(status /\ ~status') => (dpc = "idle" /\ PastStateMachine' /\ ~control)]_vars
  /\ [][(control /\ ~control') => status' = status]_vars

\* running is false while a Worker is in the middle of an iteration and its
\* handle is still held by the Driver.
C6_Witness ==
  ~control /\ ~status /\ \E w \in tasks : MidIteration(w)

\* ------------------------------------------------------------------ C7
\* C7: a Worker leaves its loop only from the check at the top of an
\* iteration (an iteration in progress goes on to its send); at that check
\* with running false it leaves; while running is false a Worker completes
\* at most one further send.
C7_CooperativeCancel ==
  /\ [](~status => \A w \in Workers : sinceClear[w] <= 1)
  /\ [][\A w \in Workers :
          MidIteration(w) => wpc'[w] \in {"capture", "send", "loop", "panicked"}]_vars
  /\ [][\A w \in Workers :
          (wpc'[w] = "exiting" /\ wpc[w] # "exiting")
             => (wpc[w] = "loop" /\ ~status)]_vars
  /\ [][\A w \in Workers :
          (wpc[w] = "loop" /\ wpc'[w] # "loop" /\ ~status)
             => wpc'[w] = "exiting"]_vars
  /\ [][\A w \in Workers :
          (wpc'[w] = "done" /\ wpc[w] # "done") => wpc[w] = "exiting"]_vars

\* After the stop signal a Worker has finished the iteration in progress
\* and published its result (it is back at its check), and another Worker
\* is out of its loop.
C7_Witness ==
  /\ ~status
  /\ \E w \in Workers : sinceClear[w] = 1 /\ wpc[w] = "loop"
  /\ \E w \in Workers : wpc[w] \in {"exiting", "done"}

\* ------------------------------------------------------------------ C8
AllReaped ==
  /\ ~status
  /\ \A w \in Spawned : wpc[w] = "done"
  /\ tasks = {} /\ cmdSpawn = {}

\* C8: a handle is discarded only when its Worker has completed; and if
\* enabled stays false from some point on, the process stays up (the Driver
\* keeps ticking) and no capture call blocks forever, then from some point
\* on running is false, every Worker has completed and no handle is left.
C8_EventuallyReaped ==
  /\ [][\A w \in Workers :
          (w \in tasks /\ w \notin tasks') => wpc[w] = "done"]_vars
  /\ [](\A w \in cmdRemove : wpc[w] = "done")
  /\ ( ( /\ <>[](~control)
         /\ [](proc = "up")
         /\ \A w \in Workers : []<>(wpc[w] # "capture") )
       => <>[]AllReaped )

\* A Worker was spawned, has completed and its handle has been discarded
\* while enabled is false.
C8_Witness ==
  ~control /\ Spawned # {} /\ AllReaped /\ dpc = "idle"

\* ------------------------------------------------------------------ C9
\* C9: while the process is up the Driver always has a step to take,
\* whatever the Workers are doing; and a Driver step that finds the channel
\* empty in the drain loop ends the tick.
C9_DriverNeverBlocks ==
  /\ [](proc = "up" => ENABLED DriverStep)
  /\ [][(dpc = "drain" /\ chan = << >> /\ DriverMoved) => dpc' = "idle"]_vars

\* The Driver is about to poll the handle of a Worker that is blocked in
\* send on the full channel.
C9_Witness ==
  /\ proc = "up" /\ dpc = "poll"
  /\ \E w \in dTodo : wpc[w] = "send" /\ chan # << >>

\* ----------------------------------------------------------------- C10
\* C10 (as stated): a Worker whose camera failed to open or to start is not
\* aborted.
C10_CameraFailureContinues ==
  [][\A w \in Workers :
       (WorkerOpenFail(w) \/ WorkerStartFail(w) \/ WorkerStartErrorLogged(w))
          => wpc'[w] # "panicked"]_vars

\* C10 (amended): a failure of camera.start is logged and the Worker goes on
\* to load the detector and to run its loop; a failure to open the camera
\* ends the Worker before the detector is loaded.
C10_StartFailureContinues ==
  /\ [](\A w \in Workers :
          /\ wpc[w] = "startError" => cam[w] = "open"
          /\ cam[w] = "openFailed" => wpc[w] = "panicked")
  /\ [][\A w \in Workers :
          (wpc[w] = "startError" /\ wpc'[w] # "startError")
             => (wpc'[w] = "detector" /\ cam'[w] = "open")]_vars
  /\ [][\A w \in Workers :
          (wpc[w] # "detector" /\ wpc'[w] = "detector")
             => wpc[w] \in {"open", "startError"}]_vars

\* The camera of a Worker failed to start: the Worker is alive, holds the
\* camera and is logging the error.
C10_Witness ==
  proc = "up" /\ \E w \in Workers : wpc[w] = "startError" /\ cam[w] = "open"

\* ------------------------------------------------- face selection alone
\* Lines 159-183 applied once to a list of detected faces.

MaxFaces == 2

SampleFaces ==
  { Face(10, 20, 40, 60, 3), Face(100, 50, 40, 40, 9),
    Face(-7, 3, 5, 9, 9), Face(0, 0, 1, 1, 0) }

FaceLists == UNION { [1..n -> SampleFaces] : n \in 0..MaxFaces }

FrameSizes == { << 320, 240 >>, << 640, 480 >>, << 5, 3 >> }

SelInit ==
  /\ control = FALSE
  /\ Built
  /\ scene = Scene
  /\ keepHist = TRUE
  /\ YuvIdle
  /\ selIn \in FaceLists
  /\ selFrame \in FrameSizes
  /\ selOut = DefaultData
  /\ selDone = FALSE

\* Lines 160-183: facial_data is built from the detected faces.
Select ==
  /\ ~selDone
  /\ selOut' = FacialData(selIn, selFrame[1], selFrame[2])
  /\ selDone' = TRUE
  /\ UNCHANGED << control, status, chan, proc, driverVars, workerVars,
                  histVars, config, scene, keepHist, selIn, selFrame, yuvIn, yuvDim,
                  yuvOut, yuvTrace, yuvDone >>

SelSpec == SelInit /\ [][Select]_vars

RECURSIVE MaxScore(_)
MaxScore(faces) ==
  IF Len(faces) = 1 THEN faces[1].score
  ELSE LET m == MaxScore(Tail(faces)) IN
       IF faces[1].score > m THEN faces[1].score ELSE m

\* C13: for every non-empty list of candidates the record describes the
\* candidate with the maximum score (its score is the maximum, its box is
\* that candidate's box), whatever the position of that candidate.
C13_SelectsMaxScore ==
  (selDone /\ Len(selIn) > 0) =>
    \E i \in 1..Len(selIn) :
      /\ selIn[i].score = MaxScore(selIn)
      /\ selOut.score = selIn[i].score
      /\ selOut.x = selIn[i].x /\ selOut.y = selIn[i].y
      /\ selOut.width = selIn[i].width /\ selOut.height = selIn[i].height

\* C14: the centre is computed from the record's own box and the frame
\* size with integer division: center_x = (width/2 + x) - frame_width/2 and
\* center_y = (height/2 + y) - frame_height/2 (box 10,20,40,60 in a 320x240
\* frame gives -130, -70); an empty list gives the all-zero record.
C14_CenterFromOwnFields ==
  selDone =>
    /\ Len(selIn) = 0 =>
          selOut = [center_x |-> 0, center_y |-> 0, x |-> 0, y |-> 0,
                    width |-> 0, height |-> 0, score |-> 0]
    /\ Len(selIn) > 0 =>
          /\ selOut.center_x
                = ((selOut.width \div 2) + selOut.x) - (selFrame[1] \div 2)
          /\ selOut.center_y
                = ((selOut.height \div 2) + selOut.y) - (selFrame[2] \div 2)
          /\ \E i \in 1..Len(selIn) :
                /\ selOut.x = selIn[i].x /\ selOut.y = selIn[i].y
                /\ selOut.width = selIn[i].width
                /\ selOut.height = selIn[i].height
    /\ (/\ Len(selIn) > 0
        /\ selOut.x = 10 /\ selOut.y = 20
        /\ selOut.width = 40 /\ selOut.height = 60
        /\ selFrame = << 320, 240 >>)
          => selOut.center_x = -130 /\ selOut.center_y = -70

\* The example of the claim has been computed.
C14_Witness ==
  /\ selDone /\ Len(selIn) = 2
  /\ selFrame = << 320, 240 >>
  /\ selOut.x = 10 /\ selOut.width = 40
  /\ selOut.center_x = -130 /\ selOut.center_y = -70

\* ---------------------------------------------------- yuyv_to_rgb alone
\* Lines 217-242, one pixel pair per step.  Indices are those of the code
\* (from 0); element i of a Rust buffer is element i + 1 of the sequence.

MaxPixels == 4

\* The coefficients are multiples of 1/10000: the f32 expressions are
\* computed on numerators over Scale.
Scale == 10000

\* `as u8` on an f32 (lines 225-230): saturating, truncating toward zero.
AsU8Wrapping(n) ==
  (IF n >= 0 THEN n \div Scale ELSE -((-n) \div Scale)) % 256
AsU8(n) ==
  IF n < 0 THEN 0
  ELSE IF n >= 255 * Scale THEN 255
  ELSE n \div Scale

\* Lines 225-230: the numerators of the three channels.
RedNum(y, u, v) == Scale * y + 14075 * (v - 128)
GreenNum(y, u, v) == Scale * y - 3455 * (u - 128) - 7169 * (v - 128)
BlueNum(y, u, v) == Scale * y + 17790 * (u - 128)

Rgb(y, u, v) ==
  << AsU8(RedNum(y, u, v)), AsU8(GreenNum(y, u, v)), AsU8(BlueNum(y, u, v)) >>

\* Line 219: the values of i, (0..width * height).step_by(2).
PixelStep == 2
NPairs(w, h) == (w * h + PixelStep - 1) \div PixelStep

\* Lines 220-223 and 232-238: the indices used by the iteration at i.
ReadIdx(i, j) == i * 2 + j
WriteIdxOverlapping(i, c) == i * 2 + c
WriteIdx(i, c) == i * 3 + c

PairReads(i) == [j \in 1..4 |-> ReadIdx(i, j - 1)]
PairWrites(i) == [c \in 1..6 |-> WriteIdx(i, c - 1)]

\* Input frames: a four-byte group repeated, each repetition shifted by d.
SampleBytes == {0, 100, 128, 255}
SampleShifts == {0, 37}
Ramp(len, q, d) ==
  [j \in 1..len |-> (q[((j - 1) % 4) + 1] + d * ((j - 1) \div 4)) % 256]

Dims ==
  { wh \in (1..MaxPixels) \X (1..MaxPixels) : wh[1] * wh[2] <= MaxPixels }

\* Line 218: the function is entered and rgb_frame allocated, all zero.
ConvInit ==
  /\ control = FALSE
  /\ Built
  /\ scene = Scene
  /\ keepHist = TRUE
  /\ SelIdle
  /\ yuvDim \in Dims
  /\ \E e \in {-1, 0, 1} :
       \E q \in SampleBytes \X SampleBytes \X SampleBytes \X SampleBytes :
         \E d \in SampleShifts :
           yuvIn = Ramp(yuvDim[1] * yuvDim[2] * 2 + e, q, d)
  /\ yuvOut = [n \in 1..(yuvDim[1] * yuvDim[2] * 3) |-> 0]
  /\ yuvTrace = << >>
  /\ yuvDone = "no"

\* Lines 219-239: one iteration of the loop; an index outside a buffer
\* panics.
ConvPair ==
  /\ yuvDone = "no"
  /\ Len(yuvTrace) < NPairs(yuvDim[1], yuvDim[2])
  /\ LET i == Len(yuvTrace) * PixelStep
         rd == PairReads(i)
         wr == PairWrites(i)
     IN IF \/ \E j \in 1..4 : rd[j] >= Len(yuvIn)
           \/ \E c \in 1..6 : wr[c] >= Len(yuvOut)
        THEN /\ yuvDone' = "panicked"
             /\ UNCHANGED << yuvOut, yuvTrace >>
        ELSE LET y0 == yuvIn[rd[1] + 1]
                 u == yuvIn[rd[2] + 1]
                 y1 == yuvIn[rd[3] + 1]
                 v == yuvIn[rd[4] + 1]
                 px == Rgb(y0, u, v) \o Rgb(y1, u, v)
             IN /\ yuvOut' = [n \in 1..Len(yuvOut) |->
                                IF \E c \in 1..6 : wr[c] + 1 = n
                                THEN px[CHOOSE c \in 1..6 :
                                          /\ wr[c] + 1 = n
                                          /\ \A c2 \in 1..6 :
                                               wr[c2] + 1 = n => c2 <= c]
                                ELSE yuvOut[n]]
                /\ yuvTrace' = Append(yuvTrace, [reads |-> rd, writes |-> wr])
                /\ yuvDone' = "no"
  /\ UNCHANGED << control, status, chan, proc, driverVars, workerVars,
                  histVars, config, scene, keepHist, selIn, selFrame, selOut, selDone,
                  yuvIn, yuvDim >>

\* Line 241: rgb_frame is returned.
ConvReturn ==
  /\ yuvDone = "no"
  /\ Len(yuvTrace) = NPairs(yuvDim[1], yuvDim[2])
  /\ yuvDone' = "returned"
  /\ UNCHANGED << control, status, chan, proc, driverVars, workerVars,
                  histVars, config, scene, keepHist, selIn, selFrame, selOut, selDone,
                  yuvIn, yuvDim, yuvOut, yuvTrace >>

ConvNext == ConvPair \/ ConvReturn

ConvSpec == ConvInit /\ [][ConvNext]_vars

\* The precondition of the conversion: an even number of pixels and a
\* buffer of two bytes per pixel at least.
ConvPre ==
  /\ (yuvDim[1] * yuvDim[2]) % 2 = 0
  /\ Len(yuvIn) >= yuvDim[1] * yuvDim[2] * 2

\* How many times output index n (from 0) has been written.
TimesWritten(n) ==
  Cardinality({ kc \in (1..Len(yuvTrace)) \X (1..6) :
                  yuvTrace[kc[1]].writes[kc[2]] = n })

\* C15: with width*height even and at least width*height*2 input bytes the
\* conversion returns exactly width*height*3 bytes, reads only input
\* indices below width*height*2, writes every output index exactly once
\* (pair k reads 4k..4k+3 and writes 6k..6k+5) and never leaves a buffer.
C15_ConversionInBounds ==
  ConvPre =>
    LET px == yuvDim[1] * yuvDim[2] IN
    /\ yuvDone # "panicked"
    /\ Len(yuvOut) = px * 3
    /\ \A k \in 1..Len(yuvTrace) :
         /\ yuvTrace[k].reads = [j \in 1..4 |-> 4 * (k - 1) + (j - 1)]
         /\ yuvTrace[k].writes = [c \in 1..6 |-> 6 * (k - 1) + (c - 1)]
         /\ \A j \in 1..4 : yuvTrace[k].reads[j] < px * 2
         /\ \A c \in 1..6 : yuvTrace[k].writes[c] < px * 3
    /\ \A n \in 0..(px * 3 - 1) : TimesWritten(n) <= 1
    /\ yuvDone = "returned" =>
         \A n \in 0..(px * 3 - 1) : TimesWritten(n) = 1

\* A 2x2 frame with a buffer longer than needed has been converted.
C15_Witness ==
  /\ yuvDone = "returned" /\ ConvPre
  /\ yuvDim = << 2, 2 >> /\ Len(yuvIn) = 9
  /\ Len(yuvTrace) = 2

\* The values a channel may take for numerator n: the real value n/Scale
\* saturated to 0..255, then truncated.
SaturatedTruncation(n, out) ==
  /\ out \in 0..255
  /\ n < 0 => out = 0
  /\ n >= 255 * Scale => out = 255
  /\ (n >= 0 /\ n < 255 * Scale) => (out * Scale <= n /\ n < (out + 1) * Scale)

\* C16: for Y, U, V in 0..255 every output channel is the BT.601 value of
\* the claim saturated to [0,255] and truncated, never wrapped modulo 256;
\* U = V = 128 gives R = G = B = Y.
C16_ChannelsSaturate ==
  \A k \in 1..Len(yuvTrace) :
    LET b == 4 * (k - 1)
        o == 6 * (k - 1)
        u == yuvIn[b + 2]
        v == yuvIn[b + 4]
    IN \A p \in 0..1 :
         LET y == yuvIn[b + 1 + 2 * p]
             r == yuvOut[o + 3 * p + 1]
             g == yuvOut[o + 3 * p + 2]
             bl == yuvOut[o + 3 * p + 3]
         IN /\ {y, u, v} \subseteq 0..255
            /\ SaturatedTruncation(Scale * y + 14075 * (v - 128), r)
            /\ SaturatedTruncation(
                 Scale * y - 3455 * (u - 128) - 7169 * (v - 128), g)
            /\ SaturatedTruncation(Scale * y + 17790 * (u - 128), bl)
            /\ (u = 128 /\ v = 128) => (r = y /\ g = y /\ bl = y)

\* A converted pixel with one channel above 255 and one below 0 before
\* saturation, and a third strictly inside that is not a whole number.
C16_Witness ==
  /\ yuvDone = "returned" /\ Len(yuvTrace) > 0
  /\ yuvIn[1] = 100 /\ yuvIn[2] = 0 /\ yuvIn[4] = 255
  /\ yuvOut[1] = 255 /\ yuvOut[3] = 0
  /\ yuvOut[2] = 53

\* C11: a send that fails because the receiver is gone for good is handled
\* inside the Worker: the result is discarded (it reaches neither the channel
\* nor the outward events), status is left unchanged, and the Worker goes
\* on to the next check at the top of its loop instead of terminating.
\* Nothing is published once the receiver is gone.
C11_SendFailureHandled ==
  /\ [][\A w \in Workers :
          (proc = "shutdown" /\ wpc[w] = "send" /\ wpc'[w] # "send")
            => /\ wpc'[w] = "loop"
               /\ wres'[w] = DefaultData
               /\ status' = status
               /\ chan' = chan /\ sent' = sent /\ events' = events]_vars
  /\ [][proc = "shutdown" => events' = events /\ sent' = sent]_vars

\* The single Worker had a send fail and is inside its next iteration.
C11_Witness ==
  /\ proc = "shutdown" /\ NSpawned = 1
  /\ wpc[1] = "capture" /\ frames > Len(sent)

\* C12: when the detector model cannot be loaded the whole process exits
\* with a non-zero status before the Worker runs any loop iteration: that
\* Worker captures no frame and publishes nothing, and after the exit there
\* is no Driver tick, no outward event, no step at all.
C12_DetectorFailureExits ==
  /\ [](\A w \in Workers :
          wpc[w] = "loadFailed" => proc = "exited" /\ ExitStatus(proc) # 0)
  /\ [][\A w \in Workers :
          (wpc[w] # "loadFailed" /\ wpc'[w] = "loadFailed")
            => /\ wpc[w] = "detector"
               /\ frames' = frames /\ sent' = sent /\ chan' = chan
               /\ events' = events]_vars
  /\ [][\A w \in Workers :
          wpc[w] \in {"unborn", "open", "startError", "detector"}
            => wpc'[w] \notin {"capture", "send"} /\ wres'[w] = DefaultData]_vars
  /\ [][proc # "exited"]_vars

\* A Worker failed to load the model while another one had already
\* published: the process is gone with the Driver in the middle of a tick.
C12_Witness ==
  /\ proc = "exited"
  /\ \E w \in Workers : wpc[w] = "loadFailed" /\ wres[w] = DefaultData
  /\ dpc # "idle" /\ Len(events) > 0

\* The record computed for the face of FixedScene in a 320x240 frame.
FixedResult ==
  [center_x |-> -130, center_y |-> -70, x |-> 10, y |-> 20,
   width |-> 40, height |-> 60, score |-> 5]

\* C17 (as claimed): with a constant frame and a detector that always
\* returns the same face, the full Driver tick that follows the enabling
\* (the tick that spawns the Worker) ends with exactly one outward event,
\* carrying the computed record.
C17_ExactlyOneEvent ==
  [][(dpc = "drain" /\ dpc' = "idle" /\ tickSp0 = 0 /\ NSpawned = 1)
       => events' = << FixedResult >>]_vars

\* C17 (amended): with a constant frame and a detector that always returns
\* the same face every outward event carries the computed record, and
\* there are at most as many events as frames captured; how many a tick
\* yields is not fixed.
C17_EventsCarryFixedResult ==
  /\ \A i \in 1..Len(events) : events[i] = FixedResult
  /\ \A i \in 1..Len(chan) : chan[i] = FixedResult
  /\ Len(events) + Len(chan) <= frames

\* The tick that spawned the Worker is about to end with exactly one event
\* published.
C17_Witness ==
  /\ dpc = "drain" /\ chan = << >>
  /\ tickSp0 = 0 /\ NSpawned = 1
  /\ events = << FixedResult >>

\* C18: status (running) is written only by the Driver, true on a spawn
\* and false on the stop signal; no Worker step writes it, not even the
\* one that leaves the loop or ends the task.  Neither the Driver nor a
\* Worker writes control (enabled) or the configuration: control changes
\* only by the external toggles, the configuration never.
C18_WritersOfFlags ==
  /\ [][status' # status
         => \/ DriverStore /\ status'
            \/ DriverCheck /\ ~control /\ ~status']_vars
  /\ [][(\E w \in Workers : WorkerStep(w))
         => status' = status /\ control' = control /\ config' = config]_vars
  /\ [][DriverStep => control' = control /\ config' = config]_vars
  /\ [][control' # control => ToggleOn \/ ToggleOff]_vars
  /\ [][config' = config]_vars

\* One Worker left its loop on the stop signal and another ended by a
\* failed capture; status is true.
C18_Witness ==
  /\ status
  /\ \E w \in Workers : wpc[w] = "panicked" /\ cam[w] = "closed"
  /\ \E w \in Workers : wpc[w] = "done"

\* C19: status (running) tracks the liveness of the Worker: whenever a
\* Driver tick has finished with status true a Worker is alive; a newly
\* spawned Worker does not read status false before the Driver's store of
\* true for that spawn (it is never out of its loop while the Driver is
\* between the spawn and the store); and a Worker that ends by itself on a
\* failed capture does not leave status true with no Worker alive.
C19_RunningTracksLiveness ==
  /\ [][(dpc = "drain" /\ dpc' = "idle" /\ status') => AliveSet' # {}]_vars
  /\ [](dpc = "store"
          => \A w \in cmdSpawn : wpc[w] \notin {"exiting", "done"})
  /\ []((/\ proc = "up" /\ control /\ status
         /\ \E w \in Workers : wpc[w] = "panicked" /\ cam[w] = "closed")
          => AliveSet # {})

====
